---------------------------- MODULE Spec2Model ----------------------------
(***************************************************************************)
(* A model of video_info.cpp: main() reads seven fields from standard      *)
(* input, constructs a VideoFile (which validates the format) and prints   *)
(* the report.                                                             *)
(*                                                                         *)
(* Standard input is a sequence of items: a number, a run of other         *)
(* characters (a word), one blank, or a line end.  The integers of the     *)
(* checker are 32 bits wide, so a double is a record                       *)
(*     [n, half, over]  standing for  n + half/2 + over * 2^31             *)
(* with n an int; this covers integers and half-integers below 2^32.       *)
(***************************************************************************)
EXTENDS Integers, Sequences, FiniteSets, TLC

---------------------------------------------------------------------------
(* Bounds of the model *)

\* the longest line the user types at a numeric prompt, in items
MaxLineLen == 2
\* how far around each threshold the sizes, widths and heights range
Slack == 1
\* the most whole hours of a duration
MaxHours == 1

---------------------------------------------------------------------------
(* Constants of the program *)

INT_MAX == 2147483647
INT_MIN == -INT_MAX - 1

KB == 1024
MB == KB * 1024
GB == MB * 1024

Width4K == 3840
Height4K == 2160
Width1080 == 1920
Height1080 == 1080
Width720 == 1280
Height720 == 720

SecondsPerHour == 3600
SecondsPerMinute == 60

\* the count of cin.ignore(10000, '\n')
IgnoreMax == 10000

supportedFormats == <<".mp4", ".mkv", ".avi", ".mov">>

---------------------------------------------------------------------------
(* Doubles and ints *)

Val(n, half, over) == [n |-> n, half |-> half, over |-> over]
IntVal(n) == Val(n, FALSE, FALSE)
Zero == IntVal(0)

\* v > 0 and v <= 0 on a double
Positive(v) == v.over \/ v.n > 0 \/ (v.n = 0 /\ v.half)

---------------------------------------------------------------------------
(* Decimal text *)

Digit(d) ==
    CASE d = 0 -> "0" [] d = 1 -> "1" [] d = 2 -> "2" [] d = 3 -> "3"
      [] d = 4 -> "4" [] d = 5 -> "5" [] d = 6 -> "6" [] d = 7 -> "7"
      [] d = 8 -> "8" [] d = 9 -> "9"

RECURSIVE NatText(_)
NatText(n) == IF n < 10 THEN Digit(n) ELSE NatText(n \div 10) \o Digit(n % 10)

\* operator<<(int): INT_MIN has no negation in 32 bits
IntText(i) ==
    IF i >= 0 THEN NatText(i)
    ELSE IF i = INT_MIN THEN "-2147483648"
    ELSE "-" \o NatText(-i)

\* n written with exactly k digits, n < 10^k
RECURSIVE Padded(_, _)
Padded(n, k) == IF k = 0 THEN "" ELSE Padded(n \div 10, k - 1) \o Digit(n % 10)


---------------------------------------------------------------------------
(* Exact arithmetic past 32 bits: a quantity x is carried as its quotient  *)
(* and remainder by a modulus m <= 2^30                                    *)

QR(x, m) == [q |-> x \div m, r |-> x % m]
AddQR(a, b, m) == [q |-> a.q + b.q + (a.r + b.r) \div m, r |-> (a.r + b.r) % m]
\* 2^31 by m
Pow31QR(m) == AddQR(QR(INT_MAX, m), QR(1, m), m)
\* ten times a
Times10QR(a, m) ==
    LET a2 == AddQR(a, a, m)
        a4 == AddQR(a2, a2, m)
        a8 == AddQR(a4, a4, m)
    IN  AddQR(a8, a2, m)

\* The results of rounding to a digit position when what is cut off is
\* exactly one half: the C library rounds it to even or away from zero.
TieRounded(f) == {IF f % 2 = 0 THEN f ELSE f + 1, f + 1}

---------------------------------------------------------------------------
(* MediaFile::formatSize *)

\* size_in_bytes >= T for a threshold T <= 2^30
AtLeast(v, T) == v.over \/ v.n >= T

\* The next k decimals of (r + h/2) / U, r < U: [f, r] with f the decimals
\* read as a number and r the remainder left (a half is used up by the
\* first decimal).
RECURSIVE Decimals(_, _, _, _, _)
Decimals(f, r, h, U, k) ==
    IF k = 0 THEN [f |-> f, r |-> r]
    ELSE LET x == AddQR(Times10QR(QR(r, U), U), QR(IF h THEN 5 ELSE 0, U), U)
         IN  Decimals(f * 10 + x.q, x.r, FALSE, U, k - 1)

\* std::to_string(double), "%f": the texts of i + (r + h/2)/U with six
\* decimals, rounded to nearest
to_string(i, r, h, U) ==
    LET d == Decimals(0, r, h, U, 6)
        fs == IF 2 * d.r > U THEN {d.f + 1}
              ELSE IF 2 * d.r = U THEN TieRounded(d.f)
              ELSE {d.f}
    IN  { IF f = 1000000 THEN NatText(i + 1) \o ".000000"
          ELSE NatText(i) \o "." \o Padded(f, 6) : f \in fs }

\* size_in_bytes / U for a unit U that size_in_bytes reaches
Quotient(v, U) ==
    IF v.over THEN to_string(2 * (GB \div U) + v.n \div U, v.n % U, v.half, U)
    ELSE to_string(v.n \div U, v.n % U, v.half, U)

\* formatSize comparing with > where the code has >=
formatSizeStrict(size_in_bytes) ==
    IF size_in_bytes.over \/ size_in_bytes.n > GB \/ (size_in_bytes.n = GB /\ size_in_bytes.half)
      THEN { t \o " GB" : t \in Quotient(size_in_bytes, GB) }
    ELSE IF size_in_bytes.n > MB \/ (size_in_bytes.n = MB /\ size_in_bytes.half)
      THEN { t \o " MB" : t \in Quotient(size_in_bytes, MB) }
    ELSE IF size_in_bytes.n > KB \/ (size_in_bytes.n = KB /\ size_in_bytes.half)
      THEN { t \o " KB" : t \in Quotient(size_in_bytes, KB) }
    ELSE { t \o " bytes" : t \in Quotient(size_in_bytes, 1) }

formatSize(size_in_bytes) ==
    IF AtLeast(size_in_bytes, GB)
      THEN { t \o " GB" : t \in Quotient(size_in_bytes, GB) }
    ELSE IF AtLeast(size_in_bytes, MB)
      THEN { t \o " MB" : t \in Quotient(size_in_bytes, MB) }
    ELSE IF AtLeast(size_in_bytes, KB)
      THEN { t \o " KB" : t \in Quotient(size_in_bytes, KB) }
    ELSE { t \o " bytes" : t \in Quotient(size_in_bytes, 1) }

---------------------------------------------------------------------------
(* VideoFile::calculateBitrate and its display with std::fixed,            *)
(* std::setprecision(2)                                                    *)

\* 2^j mod 25
RECURSIVE Pow2Mod25(_)
Pow2Mod25(j) == IF j = 0 THEN 1 ELSE (2 * Pow2Mod25(j - 1)) % 25

\* floor(log2(a)) for a >= 1, and the least j with a * 2^j >= 200 for a < 200
RECURSIVE Log2(_)
Log2(a) == IF a < 2 THEN 0 ELSE 1 + Log2(a \div 2)
RECURSIVE ShiftTo200(_)
ShiftTo200(a) == IF a >= 200 THEN 0 ELSE 1 + ShiftTo200(2 * a)

\* Whether the double nearest to odd/200 lies above it, for odd not a
\* multiple of 25 (odd/200 is then no binary fraction): the 53-bit
\* significand cuts odd * 2^j / 25 to an integer, j = 49 - floor(log2(odd/200)).
NearestIsAbove(odd) ==
    LET j == IF odd >= 200 THEN 49 - Log2(odd \div 200) ELSE 49 + ShiftTo200(odd)
    IN  ((odd % 25) * Pow2Mod25(j)) % 25 >= 13

\* twice size, by m
TwiceQR(v, m) ==
    LET n2 == AddQR(AddQR(QR(v.n, m), QR(v.n, m), m), QR(IF v.half THEN 1 ELSE 0, m), m)
    IN  IF v.over THEN AddQR(n2, AddQR(Pow31QR(m), Pow31QR(m), m), m) ELSE n2

\* (size * 8) / (duration * 1000000) in hundredths, that is
\* 2 size / (2 duration * 1250), as [c, rest]: c whole hundredths and how
\* the rest compares with half a hundredth.
ExactBitrate(size, duration) ==
    LET D2 == 2 * duration.n + (IF duration.half THEN 1 ELSE 0) IN
    IF duration.over \/ duration.n >= 536870912
      THEN [c |-> 0, rest |-> "lt"]
    ELSE IF D2 <= 858993
      THEN LET a == TwiceQR(size, 1250)
               c == a.q \div D2
               x == 2 * (1250 * (a.q % D2) + a.r)
           IN  [c |-> c,
                rest |-> IF x < 1250 * D2 THEN "lt"
                         ELSE IF x = 1250 * D2 THEN "eq" ELSE "gt"]
    ELSE LET a == TwiceQR(size, D2)
             p == a.q % 1250
         IN  [c |-> a.q \div 1250,
              rest |-> IF p < 625 THEN "lt"
                       ELSE IF p = 625 /\ a.r = 0 THEN "eq" ELSE "gt"]

\* The double the division returns: a quotient exactly halfway between two
\* hundredths is a double only when it is a binary fraction; otherwise the
\* division rounds it to the double above or below.
calculateBitrate(size, duration) ==
    LET b == ExactBitrate(size, duration) IN
    IF b.rest = "eq" /\ (2 * b.c + 1) % 25 # 0
      THEN [c |-> b.c, rest |-> IF NearestIsAbove(2 * b.c + 1) THEN "gt" ELSE "lt"]
    ELSE b

\* Fixed2 cutting the digits past the second decimal instead of rounding
Fixed2Truncating(b) ==
    { NatText(b.c \div 100) \o "." \o Padded(b.c % 100, 2) }

\* operator<<(double) under std::fixed and std::setprecision(2)
Fixed2(b) ==
    LET cs == IF b.rest = "gt" THEN {b.c + 1}
              ELSE IF b.rest = "eq" THEN TieRounded(b.c)
              ELSE {b.c}
    IN  { NatText(c \div 100) \o "." \o Padded(c % 100, 2) : c \in cs }

---------------------------------------------------------------------------
(* The duration line of VideoFile::displayInfo *)

\* int division and remainder of C++ (towards zero), b > 0
CDiv(a, b) == IF a >= 0 THEN a \div b ELSE -(((-(a + b)) \div b) + 1)
CMod(a, b) == a - b * CDiv(a, b)

\* static_cast<int>(duration) for duration > 0.  A value past INT_MAX is
\* undefined behaviour: the conversion instruction's "indefinite" INT_MIN,
\* a saturated INT_MAX, or the low 32 bits.
IntCast(v) ==
    IF v.over THEN {INT_MIN, INT_MAX, (v.n - INT_MAX) - 1} ELSE {v.n}

\* operator<<(int) under std::setfill('0') and std::setw(2)
Width2(i) == IF 0 <= i /\ i < 10 THEN "0" \o IntText(i) ELSE IntText(i)

DurationText(hours, minutes, seconds) ==
    IntText(hours) \o ":" \o Width2(minutes) \o ":" \o Width2(seconds)

---------------------------------------------------------------------------
(* operator<<(double) with the stream's defaults ("%g", six significant    *)
(* digits), for the frame rate                                             *)

RECURSIVE Pow10(_)
Pow10(k) == IF k = 0 THEN 1 ELSE 10 * Pow10(k - 1)
RECURSIVE NumDigits(_)
NumDigits(n) == IF n < 10 THEN 1 ELSE 1 + NumDigits(n \div 10)

\* the k digits f after the point, trailing zeros dropped
RECURSIVE Stripped(_, _)
Stripped(f, k) ==
    IF k = 0 THEN ""
    ELSE IF f % 10 = 0 THEN Stripped(f \div 10, k - 1)
    ELSE "." \o Padded(f, k)

\* six significant digits m (100000 <= m <= 1000000) times 10^(e-5)
Scientific(m, e) ==
    IF m = 1000000 THEN "1e+0" \o Digit(e + 1)
    ELSE Digit(m \div 100000) \o Stripped(m % 100000, 5) \o "e+0" \o Digit(e)

\* m or m + 1 as what follows m, rem/scale + half, compares with one half
Rounded6(m, rem, half, scale) ==
    LET x == 2 * rem + (IF half THEN 1 ELSE 0) IN
    IF x > scale THEN {m + 1} ELSE IF x = scale THEN TieRounded(m) ELSE {m}

DefaultText(v) ==
    IF v.over
      THEN LET lo == 3648 + (v.n % 10000)
           IN  { Scientific(m, 9) :
                   m \in Rounded6(214748 + v.n \div 10000 + lo \div 10000,
                                  lo % 10000, v.half, 10000) }
    ELSE IF v.n >= 1000000
      THEN LET e == NumDigits(v.n) - 1
               scale == Pow10(e - 5)
           IN  { Scientific(m, e) :
                   m \in Rounded6(v.n \div scale, v.n % scale, v.half, scale) }
    ELSE IF v.half /\ v.n >= 100000
      THEN { IF m = 1000000 THEN Scientific(m, 5) ELSE NatText(m) :
               m \in TieRounded(v.n) }
    ELSE { NatText(v.n) \o (IF v.half THEN ".5" ELSE "") }

---------------------------------------------------------------------------
(* Standard input *)

\* An item of input: k its kind, v the number a "num" item spells, dot
\* whether a number is spelt from its decimal point on (".5"), s the text
\* of any other item and t that text without its first character.
Item(k, v, dot, s, t) == [k |-> k, v |-> v, dot |-> dot, s |-> s, t |-> t]
Num(v) == Item("num", v, FALSE, "", "")
Word(s, t) == Item("word", Zero, FALSE, s, t)
SP == Item("sp", Zero, FALSE, " ", "")
NL == Item("nl", Zero, FALSE, "\n", "")

\* ".5", what operator>>(int&) leaves of a number with a fraction
Fraction == Item("num", Val(0, TRUE, FALSE), TRUE, "", "")

\* the characters of an item
ItemText(it) ==
    IF it.k # "num" THEN it.s
    ELSE IF it.dot THEN ".5"
    ELSE LET lo == 3648 + (it.v.n % 10000)
             whole == IF it.v.over
                        THEN NatText(214748 + it.v.n \div 10000 + lo \div 10000)
                             \o Padded(lo % 10000, 4)
                      ELSE IntText(it.v.n)
         IN  whole \o (IF it.v.half THEN ".5" ELSE "")

RECURSIVE LineText(_)
LineText(items) ==
    IF items = <<>> THEN "" ELSE ItemText(Head(items)) \o LineText(Tail(items))

IsSpace(it) == it.k \in {"sp", "nl"}

\* the sentry of a formatted extraction skips leading whitespace
RECURSIVE SkipWs(_)
SkipWs(b) == IF b # <<>> /\ IsSpace(Head(b)) THEN SkipWs(Tail(b)) ELSE b

\* the items before the first line end, and those after it
RECURSIVE UpToNL(_)
UpToNL(b) ==
    IF b = <<>> \/ Head(b).k = "nl" THEN <<>> ELSE <<Head(b)>> \o UpToNL(Tail(b))
RECURSIVE AfterNL(_)
AfterNL(b) ==
    IF b = <<>> THEN <<>> ELSE IF Head(b).k = "nl" THEN Tail(b) ELSE AfterNL(Tail(b))
HasNL(b) == \E i \in 1..Len(b) : b[i].k = "nl"

\* The stream: buf the characters typed and not yet extracted, eof whether
\* the input has ended behind them, eofbit and failbit the state flags.
Stream(b, e, eb, fb) == [buf |-> b, eof |-> e, eofbit |-> eb, failbit |-> fb]
Good(in) == ~in.eofbit /\ ~in.failbit

\* std::getline(std::cin, str): [str, in]
getline(str, in) ==
    IF ~Good(in)
      THEN [str |-> str, in |-> [in EXCEPT !.failbit = TRUE]]
    ELSE IF HasNL(in.buf)
      THEN [str |-> LineText(UpToNL(in.buf)),
            in |-> [in EXCEPT !.buf = AfterNL(in.buf)]]
    ELSE [str |-> LineText(in.buf),
          in |-> [in EXCEPT !.buf = <<>>, !.eofbit = TRUE,
                            !.failbit = (in.buf = <<>>)]]

\* std::cin >> x for a double x: [ok, val, in]; val is x afterwards
ExtractDouble(x, in) ==
    LET rest == SkipWs(in.buf) IN
    IF ~Good(in)
      THEN [ok |-> FALSE, val |-> x, in |-> [in EXCEPT !.failbit = TRUE]]
    ELSE IF rest = <<>>
      THEN [ok |-> FALSE, val |-> x,
            in |-> [in EXCEPT !.buf = <<>>, !.eofbit = TRUE, !.failbit = TRUE]]
    ELSE IF Head(rest).k = "num"
      THEN [ok |-> TRUE, val |-> Head(rest).v,
            in |-> [in EXCEPT !.buf = Tail(rest),
                              !.eofbit = (in.eof /\ Tail(rest) = <<>>)]]
    ELSE [ok |-> FALSE, val |-> Zero,
          in |-> [in EXCEPT !.buf = rest, !.failbit = TRUE]]

\* std::cin >> x for an int x: the digits before a decimal point are the
\* number; a value past INT_MAX fails and stores INT_MAX
ExtractInt(x, in) ==
    LET rest == SkipWs(in.buf)
        it == Head(rest)
    IN
    IF ~Good(in)
      THEN [ok |-> FALSE, val |-> x, in |-> [in EXCEPT !.failbit = TRUE]]
    ELSE IF rest = <<>>
      THEN [ok |-> FALSE, val |-> x,
            in |-> [in EXCEPT !.buf = <<>>, !.eofbit = TRUE, !.failbit = TRUE]]
    ELSE IF it.k = "num" /\ ~it.dot
      THEN LET left == IF it.v.half THEN <<Fraction>> \o Tail(rest) ELSE Tail(rest)
           IN  IF it.v.over
                 THEN [ok |-> FALSE, val |-> INT_MAX,
                       in |-> [in EXCEPT !.buf = left, !.failbit = TRUE,
                                         !.eofbit = (in.eof /\ left = <<>>)]]
               ELSE [ok |-> TRUE, val |-> it.v.n,
                     in |-> [in EXCEPT !.buf = left,
                                       !.eofbit = (in.eof /\ left = <<>>)]]
    ELSE [ok |-> FALSE, val |-> 0,
          in |-> [in EXCEPT !.buf = rest, !.failbit = TRUE]]

\* std::cin.clear()
clear(in) == [in EXCEPT !.eofbit = FALSE, !.failbit = FALSE]

\* std::cin.ignore(10000, '\n'): the lines of the model are shorter than
\* IgnoreMax characters, so the line end or the end of input comes first
IgnoreLine(in) ==
    IF ~Good(in) THEN [in EXCEPT !.failbit = TRUE]
    ELSE IF HasNL(in.buf) THEN [in EXCEPT !.buf = AfterNL(in.buf)]
    ELSE [in EXCEPT !.buf = <<>>, !.eofbit = TRUE]

\* std::cin.ignore(): one character, whatever it is
IgnoreChar(in) ==
    IF ~Good(in) THEN [in EXCEPT !.failbit = TRUE]
    ELSE IF in.buf = <<>> THEN [in EXCEPT !.eofbit = TRUE]
    ELSE LET it == Head(in.buf) IN
         IF it.k = "word" /\ it.t # ""
           THEN [in EXCEPT !.buf = <<Word(it.t, "")>> \o Tail(in.buf)]
         ELSE [in EXCEPT !.buf = Tail(in.buf)]

\* A read waits for the user while the stream is good, the input has not
\* ended and what it looks for has not been typed.
WaitsForLine(in) == Good(in) /\ ~in.eof /\ ~HasNL(in.buf)
WaitsForToken(in) == Good(in) /\ ~in.eof /\ SkipWs(in.buf) = <<>>
WaitsForChar(in) == Good(in) /\ ~in.eof /\ in.buf = <<>>

---------------------------------------------------------------------------
(* What the user may type *)

\* the items of a line typed at a numeric prompt: 0, -1, 0.5, 1, 1.5, 2^31,
\* a letter and a blank
NumericItems ==
    { Num(IntVal(0)), Num(IntVal(-1)), Num(Val(0, TRUE, FALSE)), Num(IntVal(1)),
      Num(Val(1, TRUE, FALSE)), Num(Val(0, FALSE, TRUE)), Word("x", ""), SP }

\* a number ends where another kind of item begins, and so does a word
WellFormed(l) ==
    \A i \in 1..(Len(l) - 1) :
        ~(l[i].k = "num" /\ l[i + 1].k = "num") /\ ~(l[i].k = "word" /\ l[i + 1].k = "word")

NumericLines ==
    { l \in UNION { [1..k -> NumericItems] : k \in 0..MaxLineLen } : WellFormed(l) }

FilenameLines == { <<Word("movie", "ovie")>> }
FormatLines ==
    { <<>>, <<Word(".mp4", "mp4")>>, <<Word(".mkv", "mkv")>>, <<Word(".avi", "avi")>>,
      <<Word(".mov", "mov")>>, <<Word(".wmv", "wmv")>> }
CodecLines == { <<>>, <<Word("H.264", ".264")>> }

---------------------------------------------------------------------------
(* The program *)

VARIABLES
    pc,          \* where main() is
    cin,         \* standard input
    filename, format, codec, duration, size, frameRate, width, height,
                 \* the locals of main()
    video,       \* the VideoFile, once constructed: <<>> or <<its fields>>
    prompt,      \* the prompt or message written last
    report,      \* the lines displayInfo() has written
    cerr,        \* what was written to standard error
    exitStatus,  \* <<>> while main() runs, then <<its return value>>
    reads,       \* the fields whose read has completed
    codecTyped,  \* <<the text typed at the codec prompt>>, <<>> if none was
    entry        \* the last numeric read: its field and <<the item it met>>

locals == <<filename, format, codec, duration, size, frameRate, width, height>>
outputs == <<prompt, report, cerr, exitStatus>>
history == <<reads, codecTyped, entry>>
vars == <<pc, cin, locals, video, outputs, history>>

NumericPcs == {"duration", "size", "width", "height", "frameRate"}
TextPcs == {"filename", "format", "codec"}
AllFields == NumericPcs \cup TextPcs

\* a local without an initializer holds any value
IndeterminateDouble == {Zero, IntVal(1)}
IndeterminateInt == {0, 1}

Init ==
    /\ pc = "filename"
    /\ cin = Stream(<<>>, FALSE, FALSE, FALSE)
    /\ filename = "" /\ format = "" /\ codec = ""
    /\ duration \in IndeterminateDouble
    /\ size \in IndeterminateDouble
    /\ frameRate \in IndeterminateDouble
    /\ width \in IndeterminateInt
    /\ height \in IndeterminateInt
    /\ video = <<>>
    /\ prompt = "Filename (without extension): "
    /\ report = <<>>
    /\ cerr = ""
    /\ exitStatus = <<>>
    /\ reads = {}
    /\ codecTyped = <<>>
    /\ entry = [at |-> "", tok |-> <<>>]

---------------------------------------------------------------------------
(* The user *)

TypedLines(at) ==
    CASE at = "filename" -> FilenameLines
      [] at = "format" -> FormatLines
      [] at = "codec" -> CodecLines
      [] OTHER -> NumericLines

\* What a read of standard input finds, as [in, typed].  A read that waits
\* (waits = TRUE; for a formatted extraction the whitespace it found is
\* skipped by then) returns once the user has typed a line l and its line
\* end, or has ended the input after the characters l; typed is <<the
\* text typed>>.  A read that need not wait finds the stream as it is.
Supplied(in, waits, skipped, at) ==
    IF waits
      THEN { [in |-> [in EXCEPT !.buf = skipped \o l \o <<NL>>],
              typed |-> <<LineText(l)>>] : l \in TypedLines(at) }
           \cup
           { [in |-> [in EXCEPT !.buf = skipped \o l, !.eof = TRUE],
              typed |-> IF l = <<>> THEN <<>> ELSE <<LineText(l)>>] : l \in TypedLines(at) }
    ELSE { [in |-> in, typed |-> <<>>] }

\* the item a formatted extraction meets behind the whitespace, if any
Leading(in) ==
    IF Good(in) /\ SkipWs(in.buf) # <<>> THEN <<Head(SkipWs(in.buf))>> ELSE <<>>

\* for std::getline and for operator>>
LineSupplied(in, at) == Supplied(in, WaitsForLine(in), in.buf, at)
\* (operator>> goes on waiting past a line of whitespace only)
TokenSupplied(in, at) ==
    { u \in Supplied(in, WaitsForToken(in), SkipWs(in.buf), at) :
        WaitsForToken(in) => (u.in.eof \/ SkipWs(u.in.buf) # <<>>) }

---------------------------------------------------------------------------
(* main() *)

\* RetryDouble with < 0 where the code has <= 0
RetryDoubleNegative(r) == ~r.ok \/ r.val.n < 0

\* RetryInt giving up once the input has ended
RetryIntUntilEof(r) == (~r.ok \/ r.val <= 0) /\ ~r.in.eofbit

\* the conditions of the while loops
RetryDouble(r) == ~r.ok \/ ~Positive(r.val)
RetryInt(r) == ~r.ok \/ r.val <= 0

\* Discard without the call of ignore
DiscardNothing(in) == clear(in)

\* the body of a while loop, after its message
Discard(in) == IgnoreLine(clear(in))

ReadFilename ==
    /\ pc = "filename"
    /\ \E u \in LineSupplied(cin, pc) : LET r == getline(filename, u.in) IN
         /\ filename' = r.str
         /\ cin' = r.in
    /\ prompt' = "Format (e.g., .mp4, .mkv): "
    /\ pc' = "format"
    /\ reads' = reads \cup {"filename"}
    /\ UNCHANGED <<format, codec, duration, size, frameRate, width, height,
                   video, report, cerr, exitStatus, codecTyped, entry>>

\* ReadFormat validating the format as soon as it is read
ReadFormatValidating ==
    /\ pc = "format"
    /\ \E u \in LineSupplied(cin, pc) : LET r == getline(format, u.in) IN
         /\ format' = r.str
         /\ cin' = r.in
         /\ IF \E i \in 1..Len(supportedFormats) : supportedFormats[i] = r.str
              THEN /\ prompt' = "Duration (in seconds): "
                   /\ pc' = "duration"
                   /\ UNCHANGED <<cerr, exitStatus>>
              ELSE /\ cerr' = "Error: Unsupported video format. Supported formats: mp4, mkv, avi, mov\n"
                   /\ exitStatus' = <<1>>
                   /\ pc' = "done"
                   /\ UNCHANGED prompt
    /\ reads' = reads \cup {"format"}
    /\ UNCHANGED <<filename, codec, duration, size, frameRate, width, height,
                   video, report, codecTyped, entry>>

ReadFormat ==
    /\ pc = "format"
    /\ \E u \in LineSupplied(cin, pc) : LET r == getline(format, u.in) IN
         /\ format' = r.str
         /\ cin' = r.in
    /\ prompt' = "Duration (in seconds): "
    /\ pc' = "duration"
    /\ reads' = reads \cup {"format"}
    /\ UNCHANGED <<filename, codec, duration, size, frameRate, width, height,
                   video, report, cerr, exitStatus, codecTyped, entry>>

ReadDuration ==
    /\ pc = "duration"
    /\ \E u \in TokenSupplied(cin, pc) : LET r == ExtractDouble(duration, u.in) IN
         /\ duration' = r.val
         /\ entry' = [at |-> pc, tok |-> Leading(u.in)]
         /\ IF RetryDouble(r)
              THEN /\ prompt' = "Please enter a valid duration: "
                   /\ cin' = Discard(r.in)
                   /\ UNCHANGED <<pc, reads>>
              ELSE /\ prompt' = "Size (in bytes): "
                   /\ cin' = r.in
                   /\ pc' = "size"
                   /\ reads' = reads \cup {"duration"}
    /\ UNCHANGED <<filename, format, codec, size, frameRate, width, height,
                   video, report, cerr, exitStatus, codecTyped>>

ReadSize ==
    /\ pc = "size"
    /\ \E u \in TokenSupplied(cin, pc) : LET r == ExtractDouble(size, u.in) IN
         /\ size' = r.val
         /\ entry' = [at |-> pc, tok |-> Leading(u.in)]
         /\ IF RetryDouble(r)
              THEN /\ prompt' = "Please enter a valid size: "
                   /\ cin' = Discard(r.in)
                   /\ UNCHANGED <<pc, reads>>
              ELSE /\ prompt' = "Width (pixels): "
                   /\ cin' = r.in
                   /\ pc' = "width"
                   /\ reads' = reads \cup {"size"}
    /\ UNCHANGED <<filename, format, codec, duration, frameRate, width, height,
                   video, report, cerr, exitStatus, codecTyped>>

ReadWidth ==
    /\ pc = "width"
    /\ \E u \in TokenSupplied(cin, pc) : LET r == ExtractInt(width, u.in) IN
         /\ width' = r.val
         /\ entry' = [at |-> pc, tok |-> Leading(u.in)]
         /\ IF RetryInt(r)
              THEN /\ prompt' = "Please enter a valid width: "
                   /\ cin' = Discard(r.in)
                   /\ UNCHANGED <<pc, reads>>
              ELSE /\ prompt' = "Height (pixels): "
                   /\ cin' = r.in
                   /\ pc' = "height"
                   /\ reads' = reads \cup {"width"}
    /\ UNCHANGED <<filename, format, codec, duration, size, frameRate, height,
                   video, report, cerr, exitStatus, codecTyped>>

ReadHeight ==
    /\ pc = "height"
    /\ \E u \in TokenSupplied(cin, pc) : LET r == ExtractInt(height, u.in) IN
         /\ height' = r.val
         /\ entry' = [at |-> pc, tok |-> Leading(u.in)]
         /\ IF RetryInt(r)
              THEN /\ prompt' = "Please enter a valid height: "
                   /\ cin' = Discard(r.in)
                   /\ UNCHANGED <<pc, reads>>
              ELSE /\ prompt' = "Frame Rate (fps): "
                   /\ cin' = r.in
                   /\ pc' = "frameRate"
                   /\ reads' = reads \cup {"height"}
    /\ UNCHANGED <<filename, format, codec, duration, size, frameRate, width,
                   video, report, cerr, exitStatus, codecTyped>>

ReadFrameRate ==
    /\ pc = "frameRate"
    /\ \E u \in TokenSupplied(cin, pc) : LET r == ExtractDouble(frameRate, u.in) IN
         /\ frameRate' = r.val
         /\ entry' = [at |-> pc, tok |-> Leading(u.in)]
         /\ IF RetryDouble(r)
              THEN /\ prompt' = "Please enter a valid frame rate: "
                   /\ cin' = Discard(r.in)
                   /\ UNCHANGED <<pc, reads>>
              ELSE /\ UNCHANGED prompt
                   /\ cin' = r.in
                   /\ pc' = "ignore"
                   /\ reads' = reads \cup {"frameRate"}
    /\ UNCHANGED <<filename, format, codec, duration, size, width, height,
                   video, report, cerr, exitStatus, codecTyped>>

\* std::cin.ignore(); // Clear newline from previous input
IgnoreNewline ==
    /\ pc = "ignore" /\ ~WaitsForChar(cin)
    /\ cin' = IgnoreChar(cin)
    /\ prompt' = "Video Codec (e.g., H.264, H.265): "
    /\ pc' = "codec"
    /\ UNCHANGED <<locals, video, report, cerr, exitStatus, history>>

ReadCodec ==
    /\ pc = "codec"
    /\ \E u \in LineSupplied(cin, pc) : LET r == getline(codec, u.in) IN
         /\ codec' = r.str
         /\ cin' = r.in
         /\ codecTyped' = u.typed
    /\ pc' = "construct"
    /\ reads' = reads \cup {"codec"}
    /\ UNCHANGED <<filename, format, duration, size, frameRate, width, height,
                   video, outputs, entry>>

---------------------------------------------------------------------------
(* VideoFile *)

\* isValidFormat searching up to end() - 1
isValidFormatShort(fmt, validFormats) ==
    \E i \in 1..(Len(validFormats) - 1) : validFormats[i] = fmt

\* MediaFile::isValidFormat: std::find over validFormats
isValidFormat(fmt, validFormats) ==
    \E i \in 1..Len(validFormats) : validFormats[i] = fmt

\* getResolutionName with || where the code has &&
getResolutionNameEither(w, h) ==
    IF w >= Width4K \/ h >= Height4K THEN "4K"
    ELSE IF w >= Width1080 \/ h >= Height1080 THEN "1080p"
    ELSE IF w >= Width720 \/ h >= Height720 THEN "720p"
    ELSE "SD"

getResolutionName(w, h) ==
    IF w >= Width4K /\ h >= Height4K THEN "4K"
    ELSE IF w >= Width1080 /\ h >= Height1080 THEN "1080p"
    ELSE IF w >= Width720 /\ h >= Height720 THEN "720p"
    ELSE "SD"

\* The constructor, which ends in validateFormat(); what it throws, main()
\* catches, writes to standard error and returns 1.
Construct ==
    /\ pc = "construct"
    /\ IF isValidFormat(format, supportedFormats)
         THEN /\ video' = << [filename |-> filename, duration |-> duration,
                              size |-> size, format |-> format,
                              width |-> width, height |-> height,
                              frameRate |-> frameRate, videoCodec |-> codec] >>
              /\ pc' = "display"
              /\ UNCHANGED <<cerr, exitStatus>>
         ELSE /\ cerr' = "Error: Unsupported video format. Supported formats: mp4, mkv, avi, mov\n"
              /\ exitStatus' = <<1>>
              /\ pc' = "done"
              /\ UNCHANGED video
    /\ UNCHANGED <<cin, locals, prompt, report, history>>

\* the lines VideoFile::displayInfo writes for one outcome d of the cast of
\* the duration and texts sz, fps, rate of the three doubles
ReportLines(v, d, sz, fps, rate) ==
    LET hours == CDiv(d, SecondsPerHour)
        minutes == CDiv(CMod(d, SecondsPerHour), SecondsPerMinute)
        seconds == CMod(d, SecondsPerMinute)
    IN  << "\n=== Video Information ===\n",
           "Filename: " \o v.filename \o v.format \o "\n",
           "Duration: " \o DurationText(hours, minutes, seconds) \o "\n",
           "Size: " \o sz \o "\n",
           "Resolution: " \o IntText(v.width) \o "x" \o IntText(v.height)
               \o " (" \o getResolutionName(v.width, v.height) \o ")\n",
           "Frame Rate: " \o fps \o " fps\n",
           "Video Codec: " \o v.videoCodec \o "\n",
           "Bitrate: " \o rate \o " Mbps\n",
           "=====================\n" >>

DisplayInfo ==
    /\ pc = "display"
    /\ \E d \in IntCast(video[1].duration),
          sz \in formatSize(video[1].size),
          fps \in DefaultText(video[1].frameRate),
          rate \in Fixed2(calculateBitrate(video[1].size, video[1].duration)) :
            report' = ReportLines(video[1], d, sz, fps, rate)
    /\ pc' = "return"
    /\ UNCHANGED <<cin, locals, video, prompt, cerr, exitStatus, history>>

\* return 0;
Return ==
    /\ pc = "return"
    /\ exitStatus' = <<0>>
    /\ pc' = "done"
    /\ UNCHANGED <<cin, locals, video, prompt, report, cerr, history>>

---------------------------------------------------------------------------
(* The session: the user at the prompts of main() *)

Next ==
    \/ ReadFilename
    \/ ReadFormat
    \/ ReadDuration
    \/ ReadSize
    \/ ReadWidth
    \/ ReadHeight
    \/ ReadFrameRate
    \/ IgnoreNewline
    \/ ReadCodec
    \/ Construct
    \/ DisplayInfo
    \/ Return

Spec == Init /\ [][Next]_vars

---------------------------------------------------------------------------
(* The record and its report: main() from the construction of the          *)
(* VideoFile on, for values around every threshold of the report           *)

Around(T) == { T + d : d \in -Slack..Slack }

Widths == Around(Width720) \cup Around(Width1080) \cup Around(Width4K) \cup {640}
Heights == Around(Height720) \cup Around(Height1080) \cup Around(Height4K) \cup {480, 1000}

Sizes ==
    { IntVal(n) : n \in Around(KB) \cup Around(MB) \cup Around(GB)
                        \cup {500, 625, 1032, 2048, 15625, 102400000, 104857600} }
    \cup { Val(500, TRUE, FALSE), Val(0, FALSE, TRUE), Val(852516352, FALSE, TRUE) }

Durations ==
    { IntVal(h * SecondsPerHour + m * SecondsPerMinute + s) :
        h \in 0..MaxHours, m \in {0, 1, 59}, s \in {1, 59} }
    \cup { IntVal(h * SecondsPerHour) : h \in 1..MaxHours }
    \cup { Val(0, TRUE, FALSE), Val(59, TRUE, FALSE), Val(0, FALSE, TRUE),
           Val(852516352, FALSE, TRUE) }

InitReport ==
    /\ pc = "construct"
    /\ cin = Stream(<<>>, FALSE, FALSE, FALSE)
    /\ filename = "movie"
    /\ format \in {".mp4", ".wmv"}
    /\ codec = "H.264"
    /\ frameRate = IntVal(30)
    /\ \/ /\ width \in Widths /\ height \in Heights
          /\ size = IntVal(104857600) /\ duration = IntVal(3661)
       \/ /\ width = Width1080 /\ height = Height1080
          /\ size \in Sizes /\ duration \in Durations
    /\ video = <<>>
    /\ prompt = "Video Codec (e.g., H.264, H.265): "
    /\ report = <<>>
    /\ cerr = ""
    /\ exitStatus = <<>>
    /\ reads = AllFields
    /\ codecTyped = <<"H.264">>
    /\ entry = [at |-> "frameRate", tok |-> <<Num(frameRate)>>]

NextReport ==
    \/ Construct
    \/ DisplayInfo
    \/ Return

ReportSpec == InitReport /\ [][NextReport]_vars

---------------------------------------------------------------------------
(* Properties of the report (ReportSpec)                                   *)

\* the lines of the report
DurationLine == report[3]
SizeLine == report[4]
ResolutionLine == report[5]
BitrateLine == report[8]
Printed == report # <<>>

\* the tiers of the specification, in priority order
Tiers ==
    << [name |-> "4K", w |-> 3840, h |-> 2160],
       [name |-> "1080p", w |-> 1920, h |-> 1080],
       [name |-> "720p", w |-> 1280, h |-> 720] >>

FirstMatch(w, h) ==
    LET hits == { i \in 1..Len(Tiers) : w >= Tiers[i].w /\ h >= Tiers[i].h }
    IN  IF hits = {} THEN "SD"
        ELSE Tiers[CHOOSE i \in hits : \A j \in hits : i <= j].name

ResolutionOf(w, h, class) ==
    "Resolution: " \o NatText(w) \o "x" \o NatText(h) \o " (" \o class \o ")\n"

\* C3 as stated: the class in the report's Resolution line is the first
\* tier, in the order 4K, 1080p, 720p, whose width and height thresholds are
\* both met, else SD; (3840,2160) is 4K, (1920,1080) is 1080p, (1280,720) is
\* 720p, (640,480) is SD and (3840,1000) is SD.
C3_HeightFailsAll ==
    Printed =>
      /\ ResolutionLine = ResolutionOf(width, height, FirstMatch(width, height))
      /\ (width = 3840 /\ height = 2160) => ResolutionLine = "Resolution: 3840x2160 (4K)\n"
      /\ (width = 1920 /\ height = 1080) => ResolutionLine = "Resolution: 1920x1080 (1080p)\n"
      /\ (width = 1280 /\ height = 720) => ResolutionLine = "Resolution: 1280x720 (720p)\n"
      /\ (width = 640 /\ height = 480) => ResolutionLine = "Resolution: 640x480 (SD)\n"
      /\ (width = 3840 /\ height = 1000) => ResolutionLine = "Resolution: 3840x1000 (SD)\n"

\* C3 amended: the class in the report's Resolution line is the first tier,
\* in the order 4K, 1080p, 720p, whose width and height thresholds are both
\* met, else SD; (3840,2160) is 4K, (1920,1080) is 1080p, (1280,720) is 720p,
\* (640,480) is SD, and (3840,1000) is 720p: its height fails 4K and 1080p
\* but meets 720.
C3_FirstMatchWins ==
    Printed =>
      /\ ResolutionLine = ResolutionOf(width, height, FirstMatch(width, height))
      /\ (width = 3840 /\ height = 2160) => ResolutionLine = "Resolution: 3840x2160 (4K)\n"
      /\ (width = 1920 /\ height = 1080) => ResolutionLine = "Resolution: 1920x1080 (1080p)\n"
      /\ (width = 1280 /\ height = 720) => ResolutionLine = "Resolution: 1280x720 (720p)\n"
      /\ (width = 640 /\ height = 480) => ResolutionLine = "Resolution: 640x480 (SD)\n"
      /\ (width = 3840 /\ height = 1000) => ResolutionLine = "Resolution: 3840x1000 (720p)\n"

\* a report for 3840x1000: the width meets 4K, the height meets 720p only
C3_Witness ==
    Printed /\ width = 3840 /\ height = 1000
            /\ ResolutionLine = "Resolution: 3840x1000 (720p)\n"

\* the unit of a size: the largest of GB, MB, KB it reaches, else bytes
UnitOf(v) ==
    IF v.over \/ v.n >= 1073741824 THEN [by |-> 1073741824, label |-> "GB"]
    ELSE IF v.n >= 1048576 THEN [by |-> 1048576, label |-> "MB"]
    ELSE IF v.n >= 1024 THEN [by |-> 1024, label |-> "KB"]
    ELSE [by |-> 1, label |-> "bytes"]

\* C4 as stated: the Size line shows the quotient without decimals, 500 as
\* "500 bytes", 2048 as "2 KB", 1024 as "1 KB", 1048576 as "1 MB" and
\* 1073741824 as "1 GB".
C4_ShortestText ==
    Printed =>
      /\ size = IntVal(500) => SizeLine = "Size: 500 bytes\n"
      /\ size = IntVal(2048) => SizeLine = "Size: 2 KB\n"
      /\ size = IntVal(1024) => SizeLine = "Size: 1 KB\n"
      /\ size = IntVal(1048576) => SizeLine = "Size: 1 MB\n"
      /\ size = IntVal(1073741824) => SizeLine = "Size: 1 GB\n"

\* C4 amended: the Size line shows the size divided by the largest of GB,
\* MB, KB it meets or exceeds (bytes below 1024), written with exactly six
\* decimals, then the unit: 500 is "500.000000 bytes", 2048 is
\* "2.000000 KB", 1024 is "1.000000 KB", 1048576 is "1.000000 MB" and
\* 1073741824 is "1.000000 GB".
C4_SixDecimals ==
    Printed =>
      /\ SizeLine \in { "Size: " \o t \o " " \o UnitOf(size).label \o "\n" :
                          t \in Quotient(size, UnitOf(size).by) }
      /\ size = IntVal(500) => SizeLine = "Size: 500.000000 bytes\n"
      /\ size = IntVal(2048) => SizeLine = "Size: 2.000000 KB\n"
      /\ size = IntVal(1024) => SizeLine = "Size: 1.000000 KB\n"
      /\ size = IntVal(1048576) => SizeLine = "Size: 1.000000 MB\n"
      /\ size = IntVal(1073741824) => SizeLine = "Size: 1.000000 GB\n"

\* a report for exactly 1024 bytes
C4_Witness ==
    Printed /\ size = IntVal(1024) /\ SizeLine = "Size: 1.000000 KB\n"

\* the whole seconds of a duration, by 3600
WholeSeconds(v) ==
    IF v.over THEN AddQR(Pow31QR(3600), QR(v.n, 3600), 3600) ELSE QR(v.n, 3600)

\* C5: the Duration line is H:MM:SS of the duration cut to whole seconds d,
\* H = d div 3600 unpadded, MM = (d mod 3600) div 60 and SS = d mod 60 with
\* two digits, for every accepted duration.
C5_HoursMinutesSeconds ==
    Printed =>
      LET d == WholeSeconds(duration)
      IN  DurationLine = "Duration: " \o NatText(d.q) \o ":" \o Padded(d.r \div 60, 2)
                           \o ":" \o Padded(d.r % 60, 2) \o "\n"

\* the hundredths of Mbps a size and a duration give, rounded to nearest
NearestHundredths(sz, d) ==
    LET b == ExactBitrate(sz, d)
    IN  (IF b.rest \in {"lt", "eq"} THEN {b.c} ELSE {})
          \cup (IF b.rest \in {"gt", "eq"} THEN {b.c + 1} ELSE {})

BitrateOf(c) ==
    "Bitrate: " \o NatText(c \div 100) \o "." \o Padded(c % 100, 2) \o " Mbps\n"

\* C6 as stated: the Bitrate line shows size*8 / (duration*1000000) with the
\* digits past the second decimal cut off.
C6_Truncated ==
    Printed => BitrateLine = BitrateOf(ExactBitrate(size, duration).c)

\* C6 amended: the Bitrate line shows size*8 / (duration*1000000) rounded
\* to the nearest hundredth (a quotient exactly halfway goes to either
\* neighbour), for every accepted size and duration.
C6_RoundedToNearest ==
    Printed => BitrateLine \in { BitrateOf(c) : c \in NearestHundredths(size, duration) }

\* 104857600 bytes in 3661 s are 0.2291... Mbps, shown as 0.23
C6_Witness ==
    Printed /\ size = IntVal(104857600) /\ duration = IntVal(3661)
            /\ BitrateLine = "Bitrate: 0.23 Mbps\n"

---------------------------------------------------------------------------
(* Properties of the session (Spec)                                        *)

Supported == {".mp4", ".mkv", ".avi", ".mov"}
Ended == pc = "done"
Gt0(v) == v.over \/ v.n > 0 \/ (v.n = 0 /\ v.half)
IntFields == {"width", "height"}

\* C1: a run that ends, ends in one of two ways decided by the format alone:
\* a supported format has the report printed and exit status 0; any other
\* has an "Error: ..." line on standard error, exit status 1 and no line of
\* the report.
C1_TwoOutcomes ==
    /\ Ended =>
         IF format \in Supported
           THEN Len(report) = 9 /\ exitStatus = <<0>> /\ cerr = ""
           ELSE /\ report = <<>> /\ exitStatus = <<1>>
                /\ cerr = "Error: Unsupported video format. Supported formats: mp4, mkv, avi, mov\n"
    /\ ("format" \in reads /\ format \notin Supported) => report = <<>>

\* a run with the format .wmv has ended
C1_Witness == Ended /\ format = ".wmv" /\ exitStatus = <<1>> /\ cerr # ""

\* the message of a numeric field's loop
MessageOf(f) ==
    CASE f = "duration" -> "Please enter a valid duration: "
      [] f = "size" -> "Please enter a valid size: "
      [] f = "width" -> "Please enter a valid width: "
      [] f = "height" -> "Please enter a valid height: "
      [] f = "frameRate" -> "Please enter a valid frame rate: "

\* what the program holds for a numeric field
StoredFor(f) ==
    CASE f = "duration" -> duration
      [] f = "size" -> size
      [] f = "width" -> IntVal(width)
      [] f = "height" -> IntVal(height)
      [] f = "frameRate" -> frameRate

\* an entry is judged by the item at its front: a number above zero and,
\* for width and height, one an int holds; its value for width and height
\* is its whole part
ValidEntry(f, tok) ==
    /\ tok # <<>> /\ tok[1].k = "num" /\ Gt0(tok[1].v)
    /\ f \in IntFields => ~tok[1].dot /\ ~tok[1].v.over /\ tok[1].v.n > 0

ValueOf(f, it) == IF f \in IntFields THEN IntVal(it.v.n) ELSE it.v

\* C2: at each numeric field, an entry that is no number or is not above
\* zero leaves the session at that field, with the field's "Please enter a
\* valid ..." message written and the rest of the line discarded; a valid
\* entry is the value the field then holds.
C2_RetryUntilValid ==
    entry.at \in NumericPcs =>
      IF ValidEntry(entry.at, entry.tok)
        THEN /\ entry.at \in reads /\ pc # entry.at
             /\ StoredFor(entry.at) = ValueOf(entry.at, entry.tok[1])
        ELSE /\ pc = entry.at /\ entry.at \notin reads
             /\ prompt = MessageOf(entry.at)
             /\ cin.buf = <<>>

\* the frame rate has been accepted after an entry was rejected
C2_Witness ==
    /\ pc = "ignore" /\ "frameRate" \in reads
    /\ prompt = "Please enter a valid frame rate: "
    /\ Gt0(frameRate)

\* C7: the format is checked only after every field has been read: no error
\* is written, no exit status set and no record made before the duration,
\* size, width, height, frame rate and codec have each been read.
C7_CheckedAfterAllFields ==
    (cerr # "" \/ exitStatus # <<>> \/ video # <<>>) => reads = AllFields

\* the error for .wmv, written with every field read
C7_Witness == cerr # "" /\ format = ".wmv" /\ reads = AllFields

\* C8: whenever the record exists (and so whenever the report is printed),
\* its duration, size, width, height and frame rate are all above zero.
C8_AllPositive ==
    /\ video # <<>> =>
         /\ Gt0(video[1].duration) /\ Gt0(video[1].size) /\ Gt0(video[1].frameRate)
         /\ video[1].width > 0 /\ video[1].height > 0
    /\ report # <<>> => video # <<>>

\* a record made after a rejected entry, with the least duration and width
C8_Witness ==
    /\ video # <<>> /\ video[1].duration = Val(0, TRUE, FALSE)
    /\ video[1].width = 1

\* C9: the codec held is exactly the line typed at the codec prompt (the
\* empty text if the input ended there), whatever followed the frame rate's
\* number on its line.
C9_CodecIsTheLineTyped ==
    "codec" \in reads =>
      \/ codecTyped = <<codec>>
      \/ codecTyped = <<>> /\ codec = "" /\ cin.eof

\* C10: a numeric field is left only with a value above zero read for it: at
\* the end of the input the program stays at the field, and nothing is
\* constructed, printed or exited while a numeric field is unread.
C10_OnlyValidExits ==
    /\ (entry.at \in NumericPcs /\ entry.tok = <<>>) =>
         /\ pc = entry.at /\ cin.eof
         /\ video = <<>> /\ report = <<>> /\ exitStatus = <<>>
    /\ \A f \in NumericPcs : f \in reads => Gt0(StoredFor(f))
    /\ (video # <<>> \/ report # <<>> \/ exitStatus # <<>> \/ cerr # "")
         => NumericPcs \subseteq reads

\* the input has ended at the size prompt after a rejected entry
C10_Witness ==
    /\ entry.at = "size" /\ entry.tok = <<>> /\ cin.eof
    /\ pc = "size" /\ prompt = "Please enter a valid size: "

============================================================================
